---- MODULE Spec2Model ----
(***************************************************************************)
(* Authentication session lifecycle of gurujiyog-backend: TokenService     *)
(* (JWT issue / verify, Session store), the Fastify auth controller        *)
(* (login, refresh, logout), the OAuth callbacks and the HybridAuth        *)
(* session cache.                                                          *)
(*                                                                         *)
(* Time is the wall clock in whole seconds.  A JWT carries iat/exp in      *)
(* seconds; two sign calls with the same payload in the same second give   *)
(* the same string, which the model renders as the same token record.      *)
(***************************************************************************)
EXTENDS Integers, FiniteSets, Sequences, TLC

(* ------------------------------ bounds --------------------------------- *)
MaxAdvances == 1
MaxSessions == 2
MaxIssued == 4
MaxUpdates == 1

(* ------------------------- program constants --------------------------- *)
ACCESS_TOKEN_EXPIRY == 15 * 60
REFRESH_TOKEN_EXPIRY == 7 * 24 * 60 * 60
SESSION_LIFETIME == 7 * 24 * 60 * 60
REVOKED_GRACE == 30 * 24 * 60 * 60
OAUTH_TOKEN_EXPIRY == 15 * 60
CACHE_TTL_SECONDS == 1800
REFRESH_BEFORE_EXPIRY_SECONDS == 300
SNAPSHOT_TOKEN_LIFETIME == 24 * 60 * 60
SESSION_CLEANUP_INTERVAL == 24 * 60 * 60

Users == {"u1", "u2"}
Devices == {"Mobile Device"}
Unset == "<unset>"
\* Configurations of the two secrets: both set to the same value, and both
\* unset (the two fallbacks differ).
SharedSecret == [JWT_SECRET |-> "k1", JWT_REFRESH_SECRET |-> "k1"]
Environments ==
  {SharedSecret, [JWT_SECRET |-> Unset, JWT_REFRESH_SECRET |-> Unset]}
ForgedKey == "attacker-key"
NoType == "<none>"

\* Steps by which the clock moves between requests.
Deltas == {ACCESS_TOKEN_EXPIRY, SESSION_LIFETIME}
\* The same for the sweeps: a short step, to the expiry of a session, just
\* past it, and past the grace period of a revoked one.
CleanupDeltas ==
  {ACCESS_TOKEN_EXPIRY, SESSION_LIFETIME, SESSION_LIFETIME + ACCESS_TOKEN_EXPIRY,
   REVOKED_GRACE + ACCESS_TOKEN_EXPIRY}
\* The same for the scheduled sweep: one period of the timer, and past the
\* expiry of a session.
SchedulerDeltas == {SESSION_CLEANUP_INTERVAL, SESSION_LIFETIME + ACCESS_TOKEN_EXPIRY}
\* The same around a sweep that overlaps other calls: a short step, and
\* past the expiry of a session.
SweepDeltas == {ACCESS_TOKEN_EXPIRY, SESSION_LIFETIME + ACCESS_TOKEN_EXPIRY}
\* The same for the cache: into the last REFRESH_BEFORE_EXPIRY_SECONDS of an
\* entry's life, exactly to its expiry time, and far beyond it.
CacheDeltas ==
  {CACHE_TTL_SECONDS - REFRESH_BEFORE_EXPIRY_SECONDS, CACHE_TTL_SECONDS, SESSION_LIFETIME}
\* Backend calls of the cache that can throw during a request.
CacheFaults == SUBSET {"get", "setex"}
\* The same while requests are in flight: the latency of one call, and to
\* the expiry of a cache entry.
IoDeltas == {1, CACHE_TTL_SECONDS}

VARIABLES
  now,        \* Date.now(), in seconds
  advances,   \* number of clock steps taken
  env,        \* process.env: JWT_SECRET, JWT_REFRESH_SECRET
  sessions,   \* the Session collection: a set of documents, each with its _id
  nextId,     \* next _id the collection hands out
  issued,     \* tokens handed to clients so far
  cache,      \* MemoryCache.cacheStorage, keyed by user id
  revoked,    \* history: refresh credentials for which revokeSession has returned
  users,      \* the User collection: each account's profile, as a revision number
  reads,      \* session reads in flight, by request
  validating, \* validateSession calls in flight, by request
  scheduler,  \* the interval timer of the session cleanup and the handle kept of it
  ret         \* what the last operation returned / answered

vars == <<now, advances, env, sessions, nextId, issued, cache, revoked,
          users, reads, validating, scheduler, ret>>
\* The accounts, the requests in flight and the timer: what the operations
\* that run to completion in one step leave alone.
others == <<users, reads, validating, scheduler>>

Null == [kind |-> "null"]
\* Requests that can be in flight at the same time, and one that is not.
Readers == {"r1", "r2"}
Validators == {"v1"}
Idle == [pc |-> "idle"]
\* No interval timer set.
NoTimer == [kind |-> "none"]
NoEntry == [kind |-> "absent"]
EmptyToken == [userId |-> "", type |-> NoType, iat |-> 0, exp |-> 0, key |-> ""]

(* --------------------------- TokenService ------------------------------ *)

\* getSecret(type): the environment value or the fallback of that type.
getSecret(type) ==
  IF type = "access"
    THEN (IF env.JWT_SECRET = Unset THEN "fallback-secret" ELSE env.JWT_SECRET)
    ELSE (IF env.JWT_REFRESH_SECRET = Unset THEN "fallback-refresh-secret"
                                            ELSE env.JWT_REFRESH_SECRET)

\* jwt.sign(payload, secret, {expiresIn}): iat = now, exp = iat + expiresIn.
JwtSign(userId, type, secret, expiresIn) ==
  [userId |-> userId, type |-> type, iat |-> now, exp |-> now + expiresIn,
   key |-> secret]

\* jwt.verify(token, secret): signature first, then expiry (now >= exp).
JwtVerify(token, secret) ==
  IF token.key # secret THEN "JsonWebTokenError"
  ELSE IF now >= token.exp THEN "TokenExpiredError"
  ELSE "ok"

generateAccessToken(userId) ==
  JwtSign(userId, "access", getSecret("access"), ACCESS_TOKEN_EXPIRY)

generateRefreshToken(userId) ==
  JwtSign(userId, "refresh", getSecret("refresh"), REFRESH_TOKEN_EXPIRY)

\* The route-local generateToken of the OAuth callbacks: payload {userId} only.
generateToken(userId) ==
  JwtSign(userId, NoType,
          IF env.JWT_SECRET = Unset THEN "fallback-secret" ELSE env.JWT_SECRET,
          OAUTH_TOKEN_EXPIRY)

Invalid(msg) == [kind |-> "result", userId |-> "", isValid |-> FALSE, error |-> msg]
Valid(userId) == [kind |-> "result", userId |-> userId, isValid |-> TRUE, error |-> ""]

\* The catch block: TokenExpiredError is a subclass of JsonWebTokenError, so
\* the first instanceof test takes both.
VerifyCatch(err) ==
  IF err \in {"JsonWebTokenError", "TokenExpiredError"}
    THEN Invalid("Invalid token signature")
    ELSE Null

\* verifyAccessToken without the test of the type claim.
verifyAccessTokenAnyType(token) ==
  IF token = EmptyToken THEN Null
  ELSE LET v == JwtVerify(token, getSecret("access")) IN
       IF v # "ok" THEN VerifyCatch(v)
       ELSE IF token.userId = "" THEN Null
       ELSE Valid(token.userId)

\* verifyAccessToken that also wants an active session of the user.
verifyAccessTokenWithStore(token) ==
  IF token = EmptyToken THEN Null
  ELSE LET v == JwtVerify(token, getSecret("access")) IN
       IF v # "ok" THEN VerifyCatch(v)
       ELSE IF token.type # "access" THEN Null
       ELSE IF token.userId = "" THEN Null
       ELSE IF \A d \in sessions : d.userId = token.userId => ~d.isActive THEN Null
       ELSE Valid(token.userId)

verifyAccessToken(token) ==
  IF token = EmptyToken THEN Null
  ELSE LET v == JwtVerify(token, getSecret("access")) IN
       IF v # "ok" THEN VerifyCatch(v)
       ELSE IF token.type # "access" THEN Null
       ELSE IF token.userId = "" THEN Null
       ELSE Valid(token.userId)

verifyRefreshToken(token) ==
  IF token = EmptyToken THEN Null
  ELSE LET v == JwtVerify(token, getSecret("refresh")) IN
       IF v # "ok" THEN VerifyCatch(v)
       ELSE IF token.type # "refresh" THEN Null
       ELSE IF token.userId = "" THEN Null
       ELSE Valid(token.userId)

\* sha256 hex digest of the token string: deterministic, and distinct strings
\* get distinct digests.
hashRefreshToken(token) ==
  <<"sha256", token.userId, token.type, token.iat, token.exp, token.key>>

(* ------------------------- Session collection -------------------------- *)

\* Paths of sessionSchema, plus the two that `timestamps: true` adds.  The
\* schema declares no revokedAt path.  ipAddress and userAgent are stored
\* verbatim and never read; the model leaves them out.
SessionPaths ==
  {"userId", "refreshTokenHash", "deviceInfo", "expiresAt", "lastUsed",
   "isActive", "createdAt", "updatedAt"}

\* Mongoose casts an update against the schema (strict mode): paths the
\* schema does not declare are dropped from the write.
CastUpdate(update) ==
  [f \in (DOMAIN update) \cap SessionPaths |-> update[f]]

\* An update that also stamps lastUsed.
ApplyUpdateTouching(doc, update) ==
  LET c == CastUpdate(update) IN
  [id |-> doc.id,
   userId |-> doc.userId,
   refreshTokenHash |-> doc.refreshTokenHash,
   deviceInfo |-> doc.deviceInfo,
   expiresAt |-> doc.expiresAt,
   lastUsed |-> now,
   isActive |-> IF "isActive" \in DOMAIN c THEN c.isActive ELSE doc.isActive,
   createdAt |-> doc.createdAt,
   updatedAt |-> now]

\* The document after updateOne/updateMany applied `update` to it; the
\* timestamps plugin stamps updatedAt on every update.
ApplyUpdate(doc, update) ==
  LET c == CastUpdate(update) IN
  [id |-> doc.id,
   userId |-> doc.userId,
   refreshTokenHash |-> doc.refreshTokenHash,
   deviceInfo |-> doc.deviceInfo,
   expiresAt |-> doc.expiresAt,
   lastUsed |-> IF "lastUsed" \in DOMAIN c THEN c.lastUsed ELSE doc.lastUsed,
   isActive |-> IF "isActive" \in DOMAIN c THEN c.isActive ELSE doc.isActive,
   createdAt |-> doc.createdAt,
   updatedAt |-> now]

\* Session.create({...}) in createSession.
NewSession(userId, refreshToken, deviceInfo) ==
  [id |-> nextId,
   userId |-> userId,
   refreshTokenHash |-> hashRefreshToken(refreshToken),
   deviceInfo |-> deviceInfo,
   expiresAt |-> now + SESSION_LIFETIME,
   lastUsed |-> now,
   isActive |-> TRUE,
   createdAt |-> now,
   updatedAt |-> now]

\* validateSession's filter without isActive: true.
LiveMatchesAnyState(token) ==
  {d \in sessions : /\ d.refreshTokenHash = hashRefreshToken(token)
                    /\ d.expiresAt > now}

\* The filter of validateSession's findOne.
LiveMatches(token) ==
  {d \in sessions : /\ d.refreshTokenHash = hashRefreshToken(token)
                    /\ d.isActive
                    /\ d.expiresAt > now}

\* The filter of revokeSession's updateOne.
HashMatches(token) ==
  {d \in sessions : d.refreshTokenHash = hashRefreshToken(token)}

\* revokeAllUserSessions' filter without the userId.
ActiveOfAnyone(userId) ==
  {d \in sessions : d.isActive}

\* The filter of revokeAllUserSessions' updateMany.
ActiveOf(userId) ==
  {d \in sessions : d.userId = userId /\ d.isActive}

\* cleanupExpiredSessions' filter with a grace period shorter than the life
\* of a session, counted from the last write to the record.
CleanupMatchesShortGrace ==
  {d \in sessions :
     \/ d.expiresAt < now
     \/ ~d.isActive /\ d.updatedAt < now - ACCESS_TOKEN_EXPIRY}

\* cleanupExpiredSessions' filter without the grace period.
CleanupMatchesAtOnce ==
  {d \in sessions : d.expiresAt < now \/ ~d.isActive}

\* The filter of cleanupExpiredSessions' deleteMany.  A document without a
\* revokedAt field does not match a $lt comparison on it.
CleanupMatches ==
  {d \in sessions :
     \/ d.expiresAt < now
     \/ /\ ~d.isActive
        /\ "revokedAt" \in DOMAIN d
        /\ d.revokedAt < now - REVOKED_GRACE}

\* What a client can present as a refresh token: any token it was given, a
\* refresh token re-signed with a foreign key, and the empty string.
Presentable ==
  issued \cup {[t EXCEPT !.key = ForgedKey] : t \in {r \in issued : r.type = "refresh"}}
         \cup {EmptyToken}

(* ----------------------------- operations ------------------------------ *)

\* What an operation leaves for its caller: the value it returned and, for
\* the handlers that call the cache and the database, those calls in order.
ResultIo(op, arg, result, io) == [op |-> op, arg |-> arg, result |-> result, io |-> io]
Result(op, arg, result) == ResultIo(op, arg, result, <<>>)
NoArg == [kind |-> "none"]
Count(n) == [kind |-> "count", n |-> n]
SessionOf(userId) == [kind |-> "session", userId |-> userId]
Tokens(access, refresh) == [kind |-> "tokens", accessToken |-> access, refreshToken |-> refresh]
NewAccess(token) == [kind |-> "access", accessToken |-> token]

\* The process after start-up, under one of the configurations `envs`.
Boot(envs) ==
  /\ now = 0
  /\ advances = 0
  /\ env \in envs
  /\ sessions = {}
  /\ nextId = 1
  /\ issued = {}
  /\ cache = [u \in Users |-> NoEntry]
  /\ revoked = {}
  /\ users = [u \in Users |-> 0]
  /\ reads = [r \in Readers |-> Idle]
  /\ validating = [v \in Validators |-> Idle]
  /\ scheduler = [timer |-> NoTimer, handle |-> Null, stopped |-> FALSE]
  /\ ret = Result("init", NoArg, Null)

Init == Boot({SharedSecret})
InitTokens == Boot(Environments)

\* Time passes between two requests.
Advance(d) ==
  /\ advances < MaxAdvances
  /\ now' = now + d
  /\ advances' = advances + 1
  /\ ret' = Result("advance", NoArg, Null)
  /\ UNCHANGED <<env, sessions, nextId, issued, cache, revoked, others>>

\* TokenService.createSession: one Session.create.
createSession(userId, refreshToken, deviceInfo) ==
  /\ sessions' = sessions \cup {NewSession(userId, refreshToken, deviceInfo)}
  /\ nextId' = nextId + 1

\* setAuthResponse, the tail of AuthControllerFastify.register / login /
\* verifyOTP / setPasswordAfterOTP once the credentials were accepted
\* (TokenService.generateTokenPair makes the same three calls).
SetAuthResponse(userId, deviceInfo) ==
  LET accessToken == generateAccessToken(userId)
      refreshToken == generateRefreshToken(userId) IN
  /\ nextId <= MaxSessions
  /\ Cardinality(issued \cup {accessToken, refreshToken}) <= MaxIssued
  /\ createSession(userId, refreshToken, deviceInfo)
  /\ issued' = issued \cup {accessToken, refreshToken}
  /\ ret' = Result("login", [kind |-> "user", userId |-> userId],
                   Tokens(accessToken, refreshToken))
  /\ UNCHANGED <<now, advances, env, cache, revoked, others>>

\* The /google/callback and /facebook/callback handlers after the provider
\* returned the user: generateToken, then the redirect that carries it.
OAuthCallback(userId) ==
  LET authToken == generateToken(userId) IN
  /\ Cardinality(issued \cup {authToken}) <= MaxIssued
  /\ issued' = issued \cup {authToken}
  /\ ret' = Result("oauthCallback", [kind |-> "user", userId |-> userId],
                   Tokens(authToken, EmptyToken))
  /\ UNCHANGED <<now, advances, env, sessions, nextId, cache, revoked, others>>

\* TokenService.verifyAccessToken, as the request middleware calls it.
VerifyAccess(token) ==
  /\ ret' = Result("verifyAccessToken", token, verifyAccessToken(token))
  /\ UNCHANGED <<now, advances, env, sessions, nextId, issued, cache, revoked, others>>

\* TokenService.verifyRefreshToken.
VerifyRefresh(token) ==
  /\ ret' = Result("verifyRefreshToken", token, verifyRefreshToken(token))
  /\ UNCHANGED <<now, advances, env, sessions, nextId, issued, cache, revoked, others>>

\* Calls on the Session collection that can throw during validateSession.
StoreFaults == {"none", "findOne", "save"}

\* validateSession that trusts the verified token when the lookup throws.
ValidateOutcomeFailOpen(token, pick, fault) ==
  LET v == verifyRefreshToken(token) IN
  IF token = EmptyToken \/ v = Null \/ ~v.isValid
    THEN [value |-> Null, store |-> sessions, io |-> <<>>]
  ELSE IF fault = "findOne"
    THEN [value |-> SessionOf(v.userId), store |-> sessions,
          io |-> <<"Session.findOne throws">>]
  ELSE IF pick = Null
    THEN [value |-> Null, store |-> sessions, io |-> <<"Session.findOne">>]
  ELSE IF fault = "save"
    THEN [value |-> Null, store |-> sessions,
          io |-> <<"Session.findOne", "session.save throws">>]
  ELSE [value |-> SessionOf(pick.userId),
        store |-> (sessions \ {pick})
                    \cup {[pick EXCEPT !.lastUsed = now, !.updatedAt = now]},
        io |-> <<"Session.findOne", "session.save">>]

\* The body of validateSession: the value it returns, the collection it
\* leaves and the calls it made, for the document `pick` that findOne
\* returned (Null when none) and the call `fault` that throws.  Whatever is
\* thrown inside lands in the catch, which returns null.
ValidateOutcome(token, pick, fault) ==
  LET v == verifyRefreshToken(token) IN
  IF token = EmptyToken \/ v = Null \/ ~v.isValid
    THEN [value |-> Null, store |-> sessions, io |-> <<>>]
  ELSE IF fault = "findOne"
    THEN [value |-> Null, store |-> sessions, io |-> <<"Session.findOne throws">>]
  ELSE IF pick = Null
    THEN [value |-> Null, store |-> sessions, io |-> <<"Session.findOne">>]
  ELSE IF fault = "save"
    THEN [value |-> Null, store |-> sessions,
          io |-> <<"Session.findOne", "session.save throws">>]
  ELSE [value |-> SessionOf(pick.userId),
        store |-> (sessions \ {pick})
                    \cup {[pick EXCEPT !.lastUsed = now, !.updatedAt = now]},
        io |-> <<"Session.findOne", "session.save">>]

\* What findOne can return for the filter of validateSession.
FindOneLive(token) ==
  IF LiveMatches(token) = {} THEN {Null} ELSE LiveMatches(token)

\* TokenService.validateSession.
ValidateSession(token, fault) ==
  \E pick \in FindOneLive(token) :
    LET out == ValidateOutcome(token, pick, fault) IN
    /\ sessions' = out.store
    /\ ret' = ResultIo("validateSession", token, out.value, out.io)
    /\ UNCHANGED <<now, advances, env, nextId, issued, cache, revoked, others>>

\* TokenService.refreshAccessToken (AuthControllerFastify.refreshToken makes
\* the same two calls).
RefreshAccessToken(token, fault) ==
  \E pick \in FindOneLive(token) :
    LET out == ValidateOutcome(token, pick, fault)
        newAccessToken == generateAccessToken(out.value.userId) IN
    /\ sessions' = out.store
    /\ IF out.value = Null
         THEN /\ ret' = ResultIo("refreshAccessToken", token, Null, out.io)
              /\ issued' = issued
         ELSE /\ Cardinality(issued \cup {newAccessToken}) <= MaxIssued
              /\ ret' = ResultIo("refreshAccessToken", token, NewAccess(newAccessToken), out.io)
              /\ issued' = issued \cup {newAccessToken}
    /\ UNCHANGED <<now, advances, env, nextId, cache, revoked, others>>

\* The collection after revokeSession's updateOne hit document `pick`
\* (Null: nothing matched).
RevokeOutcome(pick) ==
  IF pick = Null THEN sessions
  ELSE (sessions \ {pick})
         \cup {ApplyUpdate(pick, [isActive |-> FALSE, revokedAt |-> now])}

\* What updateOne({refreshTokenHash}) can pick: one matching document.
UpdateOneTarget(token) ==
  IF HashMatches(token) = {} THEN {Null} ELSE HashMatches(token)

\* TokenService.revokeSession.
RevokeSession(token) ==
  /\ token # EmptyToken
  /\ \E pick \in UpdateOneTarget(token) : sessions' = RevokeOutcome(pick)
  /\ ret' = Result("revokeSession", token, Null)
  /\ UNCHANGED <<now, advances, env, nextId, issued, cache, others>>

\* AuthControllerFastify.logout: revoke the cookie's session if there is a
\* cookie, clear the cookie, answer 200.
Logout(token) ==
  /\ IF token # EmptyToken
       THEN \E pick \in UpdateOneTarget(token) : sessions' = RevokeOutcome(pick)
       ELSE sessions' = sessions
  /\ ret' = Result("logout", token, [kind |-> "reply", status |-> 200])
  /\ UNCHANGED <<now, advances, env, nextId, issued, cache, revoked, others>>

\* TokenService.revokeAllUserSessions: one updateMany, returns modifiedCount.
RevokeAllUserSessions(userId) ==
  LET hit == ActiveOf(userId) IN
  /\ sessions' = (sessions \ hit)
                   \cup {ApplyUpdate(d, [isActive |-> FALSE, revokedAt |-> now]) : d \in hit}
  /\ ret' = Result("revokeAllUserSessions", [kind |-> "user", userId |-> userId],
                   Count(Cardinality(hit)))
  /\ UNCHANGED <<now, advances, env, nextId, issued, cache, revoked, others>>

\* TokenService.cleanupExpiredSessions: one deleteMany, returns deletedCount.
CleanupExpiredSessions ==
  /\ sessions' = sessions \ CleanupMatches
  /\ ret' = Result("cleanupExpiredSessions", NoArg, Count(Cardinality(CleanupMatches)))
  /\ UNCHANGED <<now, advances, env, nextId, issued, cache, revoked, others>>

\* MongoDB's TTL monitor on the expiresAt index (expireAfterSeconds: 0).
TtlMonitor ==
  /\ sessions' = {d \in sessions : ~(d.expiresAt <= now)}
  /\ ret' = Result("ttlMonitor", NoArg, Null)
  /\ UNCHANGED <<now, advances, env, nextId, issued, cache, revoked, others>>

(* ---------------------- validateSession in flight ---------------------- *)

\* session.save() that writes the loaded document back whole, inserting it
\* when the collection no longer has it.
SaveOutcomeUpsert(loaded) ==
  [value |-> SessionOf(loaded.userId),
   store |-> {d \in sessions : d.id # loaded.id}
               \cup {[loaded EXCEPT !.lastUsed = now, !.updatedAt = now]},
   io |-> <<"Session.findOne", "session.save">>]

\* `session.lastUsed = new Date(); await session.save()` and the return, for
\* the document `loaded` that findOne returned earlier.  save() sends
\* updateOne({_id}, {$set: {lastUsed, updatedAt}}): the other paths stay as
\* the collection has them.  When no document has that _id any more, save()
\* throws DocumentNotFoundError, and the catch returns null.
SaveOutcome(loaded) ==
  LET stored == {d \in sessions : d.id = loaded.id} IN
  IF stored = {}
    THEN [value |-> Null, store |-> sessions,
          io |-> <<"Session.findOne", "session.save throws">>]
    ELSE [value |-> SessionOf(loaded.userId),
          store |-> (sessions \ stored)
                      \cup {[d EXCEPT !.lastUsed = now, !.updatedAt = now] : d \in stored},
          io |-> <<"Session.findOne", "session.save">>]

\* validateSession up to the end of `await Session.findOne`: the token is
\* verified, the record looked up, and null returned if either fails;
\* otherwise the call goes on with the document it loaded.
LookupSession(v, token) ==
  LET tokenVerification == verifyRefreshToken(token) IN
  /\ validating[v] = Idle
  /\ IF token = EmptyToken \/ tokenVerification = Null \/ ~tokenVerification.isValid
       THEN /\ ret' = ResultIo("validateSession", token, Null, <<>>)
            /\ validating' = validating
       ELSE \E pick \in FindOneLive(token) :
              IF pick = Null
                THEN /\ ret' = ResultIo("validateSession", token, Null, <<"Session.findOne">>)
                     /\ validating' = validating
                ELSE /\ ret' = ResultIo("await", [kind |-> "request", id |-> v], Null,
                                        <<"session.save">>)
                     /\ validating' = [validating EXCEPT ![v] =
                                         [pc |-> "found", token |-> token, session |-> pick]]
  /\ UNCHANGED <<now, advances, env, sessions, nextId, issued, cache, revoked,
                 users, reads, scheduler>>

\* validateSession from `session.lastUsed = new Date()` to its return.
SaveSession(v) ==
  LET out == SaveOutcome(validating[v].session) IN
  /\ validating[v].pc = "found"
  /\ sessions' = out.store
  /\ ret' = ResultIo("validateSession", validating[v].token, out.value, out.io)
  /\ validating' = [validating EXCEPT ![v] = Idle]
  /\ UNCHANGED <<now, advances, env, nextId, issued, cache, revoked,
                 users, reads, scheduler>>

(* ------------------------- cleanup scheduler --------------------------- *)

\* TokenService.initializeCleanupScheduler, called once at start-up:
\* setInterval starts the timer; its return value is not assigned to
\* anything, so the handle the class keeps stays what it was.
InitializeCleanupScheduler ==
  /\ scheduler.timer = NoTimer
  /\ ~scheduler.stopped
  /\ scheduler' = [scheduler EXCEPT
                     !.timer = [kind |-> "interval",
                                nextAt |-> now + SESSION_CLEANUP_INTERVAL]]
  /\ ret' = Result("initializeCleanupScheduler", NoArg, Null)
  /\ UNCHANGED <<now, advances, env, sessions, nextId, issued, cache, revoked,
                 users, reads, validating>>

\* The timer fires: the callback awaits cleanupExpiredSessions and logs what
\* it throws; the timer stays set for the next period.
ScheduledCleanup ==
  /\ scheduler.timer # NoTimer
  /\ now >= scheduler.timer.nextAt
  /\ sessions' = sessions \ CleanupMatches
  /\ scheduler' = [scheduler EXCEPT !.timer.nextAt = now + SESSION_CLEANUP_INTERVAL]
  /\ ret' = Result("scheduledCleanup", NoArg, Count(Cardinality(CleanupMatches)))
  /\ UNCHANGED <<now, advances, env, nextId, issued, cache, revoked,
                 users, reads, validating>>

\* Stopping at shutdown the way MemoryCache.destroy stops its own sweep:
\* clearInterval on the handle that was kept.  clearInterval of no handle
\* clears nothing.
StopCleanupScheduler ==
  /\ ~scheduler.stopped
  /\ scheduler' = [scheduler EXCEPT
                     !.timer = IF scheduler.handle # Null THEN NoTimer ELSE @,
                     !.stopped = TRUE]
  /\ ret' = Result("stopCleanupScheduler", NoArg, Null)
  /\ UNCHANGED <<now, advances, env, sessions, nextId, issued, cache, revoked,
                 users, reads, validating>>

(* ------------------- HybridAuthController and cache -------------------- *)

\* User.findById(userId).lean(): the accounts exist and are active; the
\* document carries the profile as it is at the moment of the read.
FindUser(userId) ==
  IF userId \in Users
    THEN [kind |-> "user", userId |-> userId, isActive |-> TRUE,
          profile |-> users[userId]]
  ELSE Null

\* HybridAuthController.verifyToken: jwt.verify with process.env.JWT_SECRET
\* and nothing else; an unset secret makes jwt.verify throw.
verifyToken(token) ==
  IF token = EmptyToken \/ env.JWT_SECRET = Unset THEN Null
  ELSE IF JwtVerify(token, env.JWT_SECRET) # "ok" THEN Null
  ELSE [kind |-> "decoded", userId |-> token.userId]

\* buildSessionData: the snapshot, its three times held as Date objects.
buildSessionData(userId) ==
  LET user == FindUser(userId) IN
  IF user = Null \/ ~user.isActive THEN Null
  ELSE [kind |-> "snapshot",
        authenticated |-> TRUE,
        userId |-> userId,
        profile |-> user.profile,
        dates |-> "Date",
        tokenExpiresAt |-> now + SNAPSHOT_TOKEN_LIFETIME,
        refreshAt |-> now + SNAPSHOT_TOKEN_LIFETIME - REFRESH_BEFORE_EXPIRY_SECONDS,
        cacheExpiresAt |-> now + CACHE_TTL_SECONDS]

\* JSON.stringify turns each Date into its ISO string; JSON.parse returns
\* those strings as strings, not as Dates.
JsonStringify(snapshot) == [kind |-> "json", text |-> [snapshot EXCEPT !.dates = "string"]]
JsonParse(json) == json.text

\* MemoryCache.isExpired.
isExpired(entry) == now > entry.expiresAt

\* MemoryCache.get followed by getCachedSession's JSON.parse.
getCachedSession(userId) ==
  IF cache[userId] = NoEntry \/ isExpired(cache[userId]) THEN Null
  ELSE JsonParse(cache[userId].data)

\* The map after MemoryCache.get: an expired entry is deleted by the read.
CacheAfterGet(userId) ==
  IF cache[userId] # NoEntry /\ isExpired(cache[userId])
    THEN [cache EXCEPT ![userId] = NoEntry]
    ELSE cache

\* shouldRefreshCache that refreshes as soon as the build time has passed.
shouldRefreshCacheEager(cachedSession) ==
  now >= cachedSession.cacheExpiresAt - CACHE_TTL_SECONDS

\* shouldRefreshCache.
shouldRefreshCache(cachedSession) == now >= cachedSession.refreshAt

\* The entry MemoryCache.setex stores.
SetexEntry(ttlSeconds, value) ==
  [kind |-> "entry", data |-> value, expiresAt |-> now + ttlSeconds]

\* MemoryCache.setex through cacheSession.
CacheEntry(sessionData) == SetexEntry(CACHE_TTL_SECONDS, JsonStringify(sessionData))

Unauthenticated(msg) == [kind |-> "snapshot", authenticated |-> FALSE, error |-> msg]

\* getSessionData in which what the cache throws reaches the outer catch.
getSessionDataUncaught(token, faults) ==
  LET decoded == verifyToken(token) IN
  IF decoded = Null
    THEN [value |-> Unauthenticated("Invalid token"), store |-> cache, io |-> <<>>]
    ELSE
      LET userId == decoded.userId
          cachedSession == getCachedSession(userId)
          afterGet == CacheAfterGet(userId)
          sessionData == buildSessionData(userId)
          failed == Unauthenticated("Session validation failed")
      IN IF "get" \in faults
           THEN [value |-> failed, store |-> cache, io |-> <<"cache.get throws">>]
         ELSE IF cachedSession # Null /\ ~shouldRefreshCache(cachedSession)
           THEN [value |-> cachedSession, store |-> afterGet, io |-> <<"cache.get">>]
         ELSE IF sessionData = Null
           THEN [value |-> Unauthenticated("User not found"), store |-> afterGet,
                 io |-> <<"cache.get", "User.findById">>]
         ELSE IF "setex" \in faults
           THEN [value |-> failed, store |-> afterGet,
                 io |-> <<"cache.get", "User.findById", "cache.setex throws">>]
         ELSE [value |-> sessionData,
               store |-> [afterGet EXCEPT ![userId] = CacheEntry(sessionData)],
               io |-> <<"cache.get", "User.findById", "cache.setex">>]

\* The body of getSessionData: the value it returns, the cache it leaves and
\* the calls it made, when the backend calls in `faults` throw.
\* getCachedSession and cacheSession each catch what the cache throws.
getSessionData(token, faults) ==
  LET decoded == verifyToken(token) IN
  IF decoded = Null
    THEN [value |-> Unauthenticated("Invalid token"), store |-> cache, io |-> <<>>]
    ELSE
      LET userId == decoded.userId
          cachedSession == IF "get" \in faults THEN Null ELSE getCachedSession(userId)
          afterGet == IF "get" \in faults THEN cache ELSE CacheAfterGet(userId)
          sessionData == buildSessionData(userId)
          get == IF "get" \in faults THEN "cache.get throws" ELSE "cache.get"
          setex == IF "setex" \in faults THEN "cache.setex throws" ELSE "cache.setex"
      IN IF cachedSession # Null /\ ~shouldRefreshCache(cachedSession)
           THEN [value |-> cachedSession, store |-> afterGet, io |-> <<get>>]
         ELSE IF sessionData = Null
           THEN [value |-> Unauthenticated("User not found"), store |-> afterGet,
                 io |-> <<get, "User.findById">>]
         ELSE [value |-> sessionData,
               store |-> IF "setex" \in faults THEN afterGet
                         ELSE [afterGet EXCEPT ![userId] = CacheEntry(sessionData)],
               io |-> <<get, "User.findById", setex>>]

\* HybridAuthController.getSessionData.
GetSessionData(token, faults) ==
  LET out == getSessionData(token, faults) IN
  /\ ret' = ResultIo("getSessionData", token, out.value, out.io)
  /\ cache' = out.store
  /\ UNCHANGED <<now, advances, env, sessions, nextId, issued, revoked, others>>

HttpReply(status, body) == [kind |-> "reply", status |-> status, body |-> body]

\* The reply of the `session` handler for what getSessionData returned.  The
\* handler calls getTime() and toISOString() on the three sessionMetadata
\* times: on strings that is a TypeError, and the catch answers 500.
sessionReply(sessionData) ==
  IF ~sessionData.authenticated THEN HttpReply(401, sessionData)
  ELSE IF sessionData.dates # "Date"
    THEN HttpReply(500, Unauthenticated("Internal server error"))
    ELSE HttpReply(200, JsonStringify(sessionData))

\* HybridAuthController.session, behind GET /auth/session.
Session(token, faults) ==
  LET out == getSessionData(token, faults) IN
  /\ IF token = EmptyToken
       THEN /\ ret' = Result("session", token,
                             HttpReply(401, Unauthenticated("No authentication token provided")))
            /\ cache' = cache
       ELSE /\ ret' = ResultIo("session", token, sessionReply(out.value), out.io)
            /\ cache' = out.store
  /\ UNCHANGED <<now, advances, env, sessions, nextId, issued, revoked, others>>

(* ----------------------- session reads in flight ----------------------- *)

\* Time passes while requests are in flight.
Elapse(d) ==
  /\ advances < MaxAdvances + 1
  /\ now' = now + d
  /\ advances' = advances + 1
  /\ ret' = Result("advance", NoArg, Null)
  /\ UNCHANGED <<env, sessions, nextId, issued, cache, revoked, others>>

\* UserService.updateUserById: one findByIdAndUpdate on the account; the
\* cache is not touched.
UpdateUserById(userId) ==
  /\ users[userId] < MaxUpdates
  /\ users' = [users EXCEPT ![userId] = @ + 1]
  /\ ret' = Result("updateUserById", [kind |-> "user", userId |-> userId], Null)
  /\ UNCHANGED <<now, advances, env, sessions, nextId, issued, cache, revoked,
                 reads, validating, scheduler>>

\* What a step that leaves its request waiting for a call leaves behind.
Awaiting(request, call) ==
  ResultIo("await", [kind |-> "request", id |-> request], Null, <<call>>)

\* getSessionData up to the end of `await getCachedSession`: verifyToken,
\* cache.get, and the return of the entry if it is fresh; otherwise the
\* request goes on to buildSessionData.
ReadCache(r, token) ==
  LET decoded == verifyToken(token)
      cachedSession == getCachedSession(decoded.userId) IN
  /\ reads[r] = Idle
  /\ IF decoded = Null
       THEN /\ ret' = ResultIo("getSessionData", token, Unauthenticated("Invalid token"), <<>>)
            /\ UNCHANGED <<cache, reads>>
       ELSE /\ cache' = CacheAfterGet(decoded.userId)
            /\ IF cachedSession # Null /\ ~shouldRefreshCache(cachedSession)
                 THEN /\ ret' = ResultIo("getSessionData", token, cachedSession, <<"cache.get">>)
                      /\ reads' = reads
                 ELSE /\ ret' = Awaiting(r, "User.findById")
                      /\ reads' = [reads EXCEPT ![r] =
                                     [pc |-> "miss", token |-> token, userId |-> decoded.userId]]
  /\ UNCHANGED <<now, advances, env, sessions, nextId, issued, revoked,
                 users, validating, scheduler>>

\* getSessionData up to the end of `await buildSessionData`: User.findById
\* and the snapshot built from the document, with the times of that moment.
ReadUser(r) ==
  LET sessionData == buildSessionData(reads[r].userId) IN
  /\ reads[r].pc = "miss"
  /\ IF sessionData = Null
       THEN /\ ret' = ResultIo("getSessionData", reads[r].token,
                               Unauthenticated("User not found"),
                               <<"cache.get", "User.findById">>)
            /\ reads' = [reads EXCEPT ![r] = Idle]
       ELSE /\ ret' = Awaiting(r, "cache.setex")
            /\ reads' = [reads EXCEPT ![r] =
                           [pc |-> "built", token |-> reads[r].token,
                            userId |-> reads[r].userId, sessionData |-> sessionData]]
  /\ UNCHANGED <<now, advances, env, sessions, nextId, issued, cache, revoked,
                 users, validating, scheduler>>

\* getSessionData from `await cacheSession` to its return: cache.setex of
\* the snapshot built before, with the lifetime counted from this moment.
WriteCache(r) ==
  /\ reads[r].pc = "built"
  /\ cache' = [cache EXCEPT ![reads[r].userId] = CacheEntry(reads[r].sessionData)]
  /\ ret' = ResultIo("getSessionData", reads[r].token, reads[r].sessionData,
                     <<"cache.get", "User.findById", "cache.setex">>)
  /\ reads' = [reads EXCEPT ![r] = Idle]
  /\ UNCHANGED <<now, advances, env, sessions, nextId, issued, revoked,
                 users, validating, scheduler>>

(* ----------------------------- MemoryCache ------------------------------ *)

\* Keys, values and lifetimes for direct use of the cache.
CacheKeys == Users
CacheValues == {[kind |-> "json", text |-> "a"], [kind |-> "json", text |-> "b"]}
CacheTtls == {CACHE_TTL_SECONDS - REFRESH_BEFORE_EXPIRY_SECONDS, CACHE_TTL_SECONDS}

\* MemoryCache.get.
Get(key) ==
  /\ ret' = Result("get", [kind |-> "key", key |-> key],
                   IF cache[key] = NoEntry \/ isExpired(cache[key]) THEN Null
                   ELSE cache[key].data)
  /\ cache' = CacheAfterGet(key)
  /\ UNCHANGED <<now, advances, env, sessions, nextId, issued, revoked, others>>

\* MemoryCache.setex.
Setex(key, ttlSeconds, value) ==
  /\ cache' = [cache EXCEPT ![key] = SetexEntry(ttlSeconds, value)]
  /\ ret' = Result("setex", [kind |-> "key", key |-> key, ttlSeconds |-> ttlSeconds,
                             value |-> value], Null)
  /\ UNCHANGED <<now, advances, env, sessions, nextId, issued, revoked, others>>

\* MemoryCache.del.
Del(key) ==
  /\ cache' = [cache EXCEPT ![key] = NoEntry]
  /\ ret' = Result("del", [kind |-> "key", key |-> key], Null)
  /\ UNCHANGED <<now, advances, env, sessions, nextId, issued, revoked, others>>

\* MemoryCache.removeExpiredEntries, the background sweep.
RemoveExpiredEntries ==
  /\ cache' = [k \in DOMAIN cache |->
                 IF cache[k] # NoEntry /\ now > cache[k].expiresAt THEN NoEntry
                 ELSE cache[k]]
  /\ ret' = Result("removeExpiredEntries", NoArg, Null)
  /\ UNCHANGED <<now, advances, env, sessions, nextId, issued, revoked, others>>

\* HybridAuthController.invalidateSession: cache.del for the token's user.
InvalidateSession(token) ==
  LET decoded == verifyToken(token) IN
  /\ cache' = IF decoded = Null THEN cache
              ELSE [cache EXCEPT ![decoded.userId] = NoEntry]
  /\ ret' = Result("invalidateSession", token, [kind |-> "reply", status |-> 200])
  /\ UNCHANGED <<now, advances, env, sessions, nextId, issued, revoked, others>>

(* ------------------- request middleware and endpoints ----------------- *)

Reply(status, message) == [kind |-> "reply", status |-> status, message |-> message]
Pass(userId) == [kind |-> "next", userId |-> userId]

\* What a client can put in the Authorization header: any token it was
\* given, an access token re-signed with a foreign key, or nothing.
PresentableAccess ==
  issued \cup {[t EXCEPT !.key = ForgedKey] : t \in {a \in issued : a.type = "access"}}
         \cup {EmptyToken}

\* User.findById that takes an id it cannot cast as no filter at all and
\* returns the first user of the collection.
FindByIdLenient(userId) ==
  IF userId = "" THEN FindUser(CHOOSE u \in Users : TRUE)
  ELSE FindUser(userId)

\* User.findById(id) in the middleware: an id that is no ObjectId (the empty
\* userId of a failed verification) makes the query throw a CastError.
FindById(userId) ==
  IF userId = "" THEN [kind |-> "throw", error |-> "CastError"]
  ELSE FindUser(userId)

\* authMiddleware: the reply it sends, or the request going on as the user.
authMiddleware(token) ==
  IF token = EmptyToken THEN Reply(401, "Access token required")
  ELSE LET decoded == verifyAccessToken(token) IN
       IF decoded = Null THEN Reply(401, "Invalid or expired access token")
       ELSE LET user == FindById(decoded.userId) IN
            IF user.kind = "throw" THEN Reply(401, "Authentication failed")
            ELSE IF user = Null \/ ~user.isActive
              THEN Reply(401, "User not found or inactive")
              ELSE Pass(user.userId)

\* AuthControllerFastify.refreshToken: the reply for the session that
\* validateSession returned (Null: none).
refreshTokenReply(token, sessionResult) ==
  IF token = EmptyToken THEN Reply(401, "No refresh token provided")
  ELSE IF sessionResult = Null THEN Reply(401, "Invalid or expired refresh token")
  ELSE [kind |-> "reply", status |-> 200, message |-> "",
        accessToken |-> generateAccessToken(sessionResult.userId)]

\* request.user after a middleware that attached nothing.
NoUser == "<no user>"

\* optionalAuthMiddleware: the request always goes on, as the user or as
\* nobody; whatever is thrown inside is swallowed.
optionalAuthMiddleware(token) ==
  IF token = EmptyToken THEN Pass(NoUser)
  ELSE LET decoded == verifyAccessToken(token) IN
       IF decoded = Null THEN Pass(NoUser)
       ELSE LET user == FindById(decoded.userId) IN
            IF user.kind = "throw" THEN Pass(NoUser)
            ELSE IF user # Null /\ user.isActive THEN Pass(user.userId)
            ELSE Pass(NoUser)

\* A request through optionalAuthMiddleware.
OptionalAuthMiddleware(token) ==
  /\ ret' = Result("optionalAuthMiddleware", token, optionalAuthMiddleware(token))
  /\ UNCHANGED <<now, advances, env, sessions, nextId, issued, cache, revoked, others>>

\* A request through authMiddleware.
AuthMiddleware(token) ==
  /\ ret' = Result("authMiddleware", token, authMiddleware(token))
  /\ UNCHANGED <<now, advances, env, sessions, nextId, issued, cache, revoked, others>>

\* POST /refresh: validateSession, then the new access token.
RefreshTokenEndpoint(token) ==
  \E pick \in FindOneLive(token) :
    LET out == ValidateOutcome(token, pick, "none")
        reply == refreshTokenReply(token, out.value) IN
    /\ sessions' = out.store
    /\ ret' = Result("refreshToken", token, reply)
    /\ IF reply.status = 200
         THEN /\ Cardinality(issued \cup {reply.accessToken}) <= MaxIssued
              /\ issued' = issued \cup {reply.accessToken}
         ELSE issued' = issued
    /\ UNCHANGED <<now, advances, env, nextId, cache, revoked, others>>

(* --------------------------- specification ----------------------------- *)

\* Session store: login, validation, revocation (single and bulk) and the
\* two sweeps.
Next ==
  \/ \E d \in Deltas : Advance(d)
  \/ \E u \in Users, dev \in Devices : SetAuthResponse(u, dev)
  \/ \E t \in Presentable : ValidateSession(t, "none")
  \/ \E t \in issued : RevokeSession(t) /\ UNCHANGED revoked
  \/ \E u \in Users : RevokeAllUserSessions(u)
  \/ CleanupExpiredSessions
  \/ TtlMonitor

Spec == Init /\ [][Next]_vars

\* The same store with the refresh endpoint, keeping the history of the
\* refresh credentials that were revoked one by one.
NextRevoke ==
  \/ \E d \in Deltas : Advance(d)
  \/ \E u \in Users, dev \in Devices : SetAuthResponse(u, dev)
  \/ \E t \in Presentable : ValidateSession(t, "none")
  \/ \E t \in {r \in issued : r.type = "refresh"} : RefreshAccessToken(t, "none")
  \/ \E t \in {r \in issued : r.type = "refresh"} :
        RevokeSession(t) /\ revoked' = revoked \cup {t}
  \/ \E u \in Users : RevokeAllUserSessions(u)
  \/ CleanupExpiredSessions
  \/ TtlMonitor

SpecRevoke == Init /\ [][NextRevoke]_vars

\* Token issuer and verifier: every flow that hands out credentials, and the
\* two verifiers applied to whatever a client can present.
NextTokens ==
  \/ \E d \in Deltas : Advance(d)
  \/ \E u \in Users, dev \in Devices : SetAuthResponse(u, dev)
  \/ \E u \in Users : OAuthCallback(u)
  \/ \E t \in issued \cup {EmptyToken} : VerifyAccess(t)
  \/ \E t \in issued \cup {EmptyToken} : VerifyRefresh(t)

SpecTokens == InitTokens /\ [][NextTokens]_vars

\* The access verifier next to everything that changes the session records.
NextAccess ==
  \/ \E d \in Deltas : Advance(d)
  \/ \E u \in Users, dev \in Devices : SetAuthResponse(u, dev)
  \/ \E t \in {r \in issued : r.type = "refresh"} : RevokeSession(t) /\ UNCHANGED revoked
  \/ \E u \in Users : RevokeAllUserSessions(u)
  \/ CleanupExpiredSessions
  \/ TtlMonitor
  \/ \E t \in issued \cup {EmptyToken} : VerifyAccess(t)

SpecAccess == Init /\ [][NextAccess]_vars

\* The session cache next to login and logout.
NextCache ==
  \/ \E d \in CacheDeltas : Advance(d)
  \/ \E u \in Users, dev \in Devices : SetAuthResponse(u, dev)
  \/ \E t \in {r \in issued : r.type = "refresh"} \cup {EmptyToken} : Logout(t)
  \/ \E t \in issued \cup {EmptyToken} : GetSessionData(t, {})
  \/ \E t \in issued \cup {EmptyToken} : Session(t, {})
  \/ \E t \in issued : InvalidateSession(t)

SpecCache == Init /\ [][NextCache]_vars

\* The HTTP boundary: the middleware in front of the protected routes and the
\* refresh endpoint, with whatever a client can send.
NextApi ==
  \/ \E d \in Deltas : Advance(d)
  \/ \E u \in Users, dev \in Devices : SetAuthResponse(u, dev)
  \/ \E t \in {r \in issued : r.type = "refresh"} : RevokeSession(t) /\ UNCHANGED revoked
  \/ \E t \in PresentableAccess : AuthMiddleware(t)
  \/ \E t \in Presentable : RefreshTokenEndpoint(t)

SpecApi == Init /\ [][NextApi]_vars

\* The session read on its own: reads with and without a failing cache
\* backend, eviction and the background sweep of the cache.
NextRead ==
  \/ \E d \in CacheDeltas : Advance(d)
  \/ \E u \in Users, dev \in Devices : SetAuthResponse(u, dev)
  \/ \E t \in issued \cup {EmptyToken}, f \in CacheFaults : GetSessionData(t, f)
  \/ \E t \in {a \in issued : a.type = "access"} : InvalidateSession(t)
  \/ RemoveExpiredEntries

SpecRead == Init /\ [][NextRead]_vars

\* MemoryCache used directly.
NextMemoryCache ==
  \/ \E d \in CacheDeltas : Advance(d)
  \/ \E k \in CacheKeys : Get(k)
  \/ \E k \in CacheKeys, ttl \in CacheTtls, v \in CacheValues : Setex(k, ttl, v)
  \/ \E k \in CacheKeys : Del(k)
  \/ RemoveExpiredEntries

SpecMemoryCache == Init /\ [][NextMemoryCache]_vars

\* The session store with a Session collection whose calls can throw.
NextStoreFaults ==
  \/ \E d \in Deltas : Advance(d)
  \/ \E u \in Users, dev \in Devices : SetAuthResponse(u, dev)
  \/ \E t \in {r \in issued : r.type = "refresh"}, f \in StoreFaults :
        ValidateSession(t, f)
  \/ \E t \in {r \in issued : r.type = "refresh"}, f \in StoreFaults :
        RefreshAccessToken(t, f)

SpecStoreFaults == Init /\ [][NextStoreFaults]_vars

\* The life of the session records: creation, use, revocation and the two
\* sweeps, over the time scale of expiry and of the grace period.
NextCleanup ==
  \/ \E d \in CleanupDeltas : Advance(d)
  \/ \E u \in Users, dev \in Devices : SetAuthResponse(u, dev)
  \/ \E t \in {r \in issued : r.type = "refresh"} : ValidateSession(t, "none")
  \/ \E t \in {r \in issued : r.type = "refresh"} : RevokeSession(t) /\ UNCHANGED revoked
  \/ \E u \in Users : RevokeAllUserSessions(u)
  \/ CleanupExpiredSessions
  \/ TtlMonitor

SpecCleanup == Init /\ [][NextCleanup]_vars

\* GET /auth/session in front of every flow that hands out a token.
NextSession ==
  \/ \E d \in Deltas : Advance(d)
  \/ \E u \in Users, dev \in Devices : SetAuthResponse(u, dev)
  \/ \E u \in Users : OAuthCallback(u)
  \/ \E t \in issued \cup {EmptyToken} : GetSessionData(t, {})
  \/ \E t \in issued \cup {EmptyToken} : VerifyAccess(t)

SpecSession == InitTokens /\ [][NextSession]_vars

\* The two request middlewares with whatever a client can put in the
\* Authorization header.
NextGuard ==
  \/ \E d \in Deltas : Advance(d)
  \/ \E u \in Users, dev \in Devices : SetAuthResponse(u, dev)
  \/ \E t \in PresentableAccess : AuthMiddleware(t)
  \/ \E t \in PresentableAccess : OptionalAuthMiddleware(t)

SpecGuard == Init /\ [][NextGuard]_vars

\* The session store with the scheduled sweep, from start-up to shutdown.
NextScheduler ==
  \/ \E d \in SchedulerDeltas : Advance(d)
  \/ \E u \in Users, dev \in Devices : SetAuthResponse(u, dev)
  \/ \E t \in {r \in issued : r.type = "refresh"} : RevokeSession(t) /\ UNCHANGED revoked
  \/ InitializeCleanupScheduler
  \/ ScheduledCleanup
  \/ StopCleanupScheduler

SpecScheduler == Init /\ [][NextScheduler]_vars

\* Session reads that overlap each other, profile updates and evictions.
NextFlight ==
  \/ \E d \in IoDeltas : Elapse(d)
  \/ \E u \in Users, dev \in Devices : SetAuthResponse(u, dev)
  \/ \E u \in Users : UpdateUserById(u)
  \/ \E r \in Readers, t \in {a \in issued : a.type = "access"} \cup {EmptyToken} :
        ReadCache(r, t)
  \/ \E r \in Readers : ReadUser(r)
  \/ \E r \in Readers : WriteCache(r)
  \/ \E t \in {a \in issued : a.type = "access"} : InvalidateSession(t)

SpecFlight == Init /\ [][NextFlight]_vars

\* The cleanup sweep among session operations that overlap it: validations
\* that are between their lookup and their save, logins and revocations.
NextSweep ==
  \/ \E d \in SweepDeltas : Advance(d)
  \/ \E u \in Users, dev \in Devices : SetAuthResponse(u, dev)
  \/ \E v \in Validators, t \in {r \in issued : r.type = "refresh"} : LookupSession(v, t)
  \/ \E v \in Validators : SaveSession(v)
  \/ \E t \in {r \in issued : r.type = "refresh"} : RevokeSession(t) /\ UNCHANGED revoked
  \/ \E u \in Users : RevokeAllUserSessions(u)
  \/ CleanupExpiredSessions

SpecSweep == Init /\ [][NextSweep]_vars

\* Revocation among validations: one that is between its lookup and its
\* save, and others that run from start to end.
NextRace ==
  \/ \E d \in Deltas : Advance(d)
  \/ \E u \in Users, dev \in Devices : SetAuthResponse(u, dev)
  \/ \E v \in Validators, t \in {r \in issued : r.type = "refresh"} : LookupSession(v, t)
  \/ \E v \in Validators : SaveSession(v)
  \/ \E t \in {r \in issued : r.type = "refresh"} : ValidateSession(t, "none")
  \/ \E t \in {r \in issued : r.type = "refresh"} : RevokeSession(t) /\ UNCHANGED revoked
  \/ \E u \in Users : RevokeAllUserSessions(u)

SpecRace == Init /\ [][NextRace]_vars

(* ------------------------------- claims -------------------------------- *)

\* A verifier's answer that lets the caller in.
Accepted(r) == r.kind = "result" /\ r.isValid

\* C1: once revokeSession(R) has returned for a refresh credential R, every
\* later validateSession(R) and refreshAccessToken(R) returns null.
C1_RevokedStaysRejected ==
  (ret.op \in {"validateSession", "refreshAccessToken"} /\ ret.arg \in revoked)
    => ret.result = Null

\* C2: validateSession(R) returns a principal exactly when R passes
\* verifyRefreshToken and the store holds a record with R's hash that is
\* active and unexpired; the principal is that record's userId.
C2_ValidateSessionIff ==
  [][ret'.op = "validateSession" =>
       LET R == ret'.arg
           usable == {d \in sessions : /\ d.refreshTokenHash = hashRefreshToken(R)
                                       /\ d.isActive
                                       /\ d.expiresAt > now}
       IN /\ (ret'.result # Null) <=> (Accepted(verifyRefreshToken(R)) /\ usable # {})
          /\ (ret'.result # Null) =>
               \E d \in usable : ret'.result = SessionOf(d.userId)]_vars

\* C2 witness: a validateSession call that returned a principal.
C2_Witness ==
  /\ ret.op = "validateSession"
  /\ ret.result # Null
  /\ \E d \in sessions : d.refreshTokenHash = hashRefreshToken(ret.arg) /\ d.lastUsed = now

\* C3: the store never holds two records with the same refreshTokenHash.
C3_OneRecordPerHash ==
  \A d1, d2 \in sessions : d1.refreshTokenHash = d2.refreshTokenHash => d1 = d2

\* C4: revokeAllUserSessions(P) deactivates every active record of P, returns
\* their number, leaves the records of other principals as they were and
\* removes none; a session created by a login validates when it is presented
\* right after that login, whatever was revoked before.
C4_RevokeAllExact ==
  [][/\ ret'.op = "revokeAllUserSessions" =>
          LET P == ret'.arg.userId
              mine == {d \in sessions : d.userId = P /\ d.isActive}
          IN /\ \A d \in mine : \E e \in sessions' : e.id = d.id /\ ~e.isActive
             /\ ret'.result = Count(Cardinality(mine))
             /\ \A d \in sessions : d.userId # P => d \in sessions'
             /\ {d.id : d \in sessions'} = {d.id : d \in sessions}
     /\ (ret.op = "login" /\ ret'.op = "validateSession"
           /\ ret'.arg = ret.result.refreshToken)
          => ret'.result = SessionOf(ret.arg.userId)]_vars

\* C4 witness: revokeAllUserSessions revoked something while another
\* principal holds an active session.
C4_Witness ==
  /\ ret.op = "revokeAllUserSessions"
  /\ ret.result.n >= 1
  /\ \E d \in sessions : d.userId = ret.arg.userId /\ ~d.isActive
  /\ \E d \in sessions : d.userId # ret.arg.userId /\ d.isActive

\* C5: revokeSession on a credential whose records are all revoked already,
\* or that has no record, changes no field of any record.
C5_RevokeIsNoOp ==
  [][(/\ ret'.op = "revokeSession"
      /\ \A d \in sessions :
           d.refreshTokenHash = hashRefreshToken(ret'.arg) => ~d.isActive)
       => sessions' = sessions]_vars

\* C6: when the logout handler has completed, the session cache holds no
\* entry for the principal whose session it revoked.
C6_LogoutEvicts ==
  (ret.op = "logout" /\ ret.arg # EmptyToken)
    => cache[ret.arg.userId] = NoEntry

\* C7: every flow that authenticates a principal adds exactly one record:
\* the principal's, active, expiring in 7 days, keyed by the hash of the
\* refresh credential the flow hands out.
C7_FlowCreatesSession ==
  [][ret'.op \in {"login", "oauthCallback"} =>
       \E d \in sessions' \ sessions :
          /\ sessions' = sessions \cup {d}
          /\ d.userId = ret'.arg.userId
          /\ d.isActive
          /\ d.expiresAt = now + SESSION_LIFETIME
          /\ d.refreshTokenHash = hashRefreshToken(ret'.result.refreshToken)]_vars

\* C8: the access credential a flow has just handed out is accepted by
\* verifyAccessToken, with the principal's id.
C8_IssuedAccessVerifies ==
  ret.op \in {"login", "oauthCallback"}
    => verifyAccessToken(ret.result.accessToken) = Valid(ret.arg.userId)

C10_AccessIgnoresStore ==
  (ret.op = "verifyAccessToken" /\ ret.arg \in issued /\ ret.arg.type = "access")
    => ret.result = IF now < ret.arg.exp
                      THEN Valid(ret.arg.userId)
                      ELSE Invalid("Invalid token signature")

\* C10 witness: an unexpired access credential verified while every session
\* of its principal is revoked.
C10_Witness ==
  /\ ret.op = "verifyAccessToken"
  /\ ret.arg \in issued
  /\ ret.arg.type = "access"
  /\ Accepted(ret.result)
  /\ \E d \in sessions : d.userId = ret.arg.userId
  /\ \A d \in sessions : d.userId = ret.arg.userId => ~d.isActive

\* A reply that turns the request away.
Refused(r) == r.kind = "reply" /\ r.status # 200

\* The refresh endpoint turns the token away: validateSession returns null.
RefreshRefused(token) ==
  \A pick \in FindOneLive(token) : ValidateOutcome(token, pick, "none").value = Null

\* C11: any two requests that authMiddleware turns away get the same status
\* and message, and so do any two that the refresh endpoint turns away,
\* whatever the reason (missing, forged, expired, wrong type, revoked).
C11_FailuresIndistinguishable ==
  /\ \A t1, t2 \in PresentableAccess :
        (Refused(authMiddleware(t1)) /\ Refused(authMiddleware(t2)))
          => authMiddleware(t1) = authMiddleware(t2)
  /\ \A t1, t2 \in Presentable :
        (RefreshRefused(t1) /\ RefreshRefused(t2))
          => refreshTokenReply(t1, Null) = refreshTokenReply(t2, Null)

\* C12: every snapshot that was built, and every snapshot in the cache, has
\* refreshAt earlier than its cache expiry time.
C12_RefreshBeforeExpiry ==
  /\ \A u \in Users :
        cache[u] # NoEntry =>
          /\ JsonParse(cache[u].data).refreshAt < JsonParse(cache[u].data).cacheExpiresAt
          /\ JsonParse(cache[u].data).refreshAt < cache[u].expiresAt
  /\ (ret.op = "getSessionData" /\ ret.result.authenticated)
       => ret.result.refreshAt < ret.result.cacheExpiresAt

\* The entry a session read for `token` gets from the cache (Null: none,
\* because there is none, it has expired or the token is turned away).
Found(token) ==
  IF verifyToken(token) = Null THEN Null
  ELSE getCachedSession(verifyToken(token).userId)

\* C13: a session read that gets an entry from the cache with now < refreshAt
\* returns that entry, with its build timestamps, reads no user from the
\* database and leaves the cache as it was.
C13_FastPath ==
  [][(/\ ret'.op = "getSessionData"
      /\ ret'.io # <<>> /\ ret'.io[1] = "cache.get"
      /\ Found(ret'.arg) # Null
      /\ now < Found(ret'.arg).refreshAt)
       => /\ ret'.result = Found(ret'.arg)
          /\ ret'.result.cacheExpiresAt = Found(ret'.arg).cacheExpiresAt
          /\ ret'.io = <<"cache.get">>
          /\ cache' = cache]_vars

\* C13 witness: a read served from an entry that was built earlier.
C13_Witness ==
  /\ ret.op = "getSessionData"
  /\ ret.io = <<"cache.get">>
  /\ ret.result.authenticated
  /\ ret.result.cacheExpiresAt - CACHE_TTL_SECONDS < now
  /\ cache[ret.arg.userId] # NoEntry

C15_CacheFidelity ==
  [][(ret'.op = "session" /\ ret'.io = <<"cache.get">>)
       => /\ ret'.result = HttpReply(200, cache[ret'.arg.userId].data)
          /\ Found(ret'.arg).dates = "Date"]_vars

\* C16: MemoryCache behaves as a TTL map.  setex(k, ttl, v) stores v for k
\* until now + ttl and del(k) removes it; get(k) returns the stored value
\* while the map holds it (set, not deleted, now < set time + ttl) and null
\* otherwise; no operation on k, and no
\* background sweep, changes what a get of another key returns.
C16_TtlMap ==
  [][LET Held(key) == cache[key] # NoEntry /\ now < cache[key].expiresAt IN
     /\ ret'.op = "setex" =>
          cache' = [cache EXCEPT ![ret'.arg.key] =
                      [kind |-> "entry", data |-> ret'.arg.value,
                       expiresAt |-> now + ret'.arg.ttlSeconds]]
     /\ ret'.op = "del" => cache' = [cache EXCEPT ![ret'.arg.key] = NoEntry]
     /\ ret'.op = "get" =>
          /\ ret'.result = IF Held(ret'.arg.key) THEN cache[ret'.arg.key].data ELSE Null
          /\ \A k \in CacheKeys \ {ret'.arg.key} : cache'[k] = cache[k]
     /\ ret'.op = "removeExpiredEntries" =>
          \A k \in CacheKeys : Held(k) => cache'[k] = cache[k]]_vars

\* C19: when the lookup of the session record throws, validateSession
\* returns null and refreshAccessToken returns null.
C19_FailClosed ==
  (/\ ret.op \in {"validateSession", "refreshAccessToken"}
   /\ ret.io # <<>> /\ ret.io[1] = "Session.findOne throws")
    => ret.result = Null

\* C19 witness: the lookup threw for a refresh credential that verifies and
\* has an active, unexpired record.
C19_Witness ==
  /\ ret.op \in {"validateSession", "refreshAccessToken"}
  /\ ret.io = <<"Session.findOne throws">>
  /\ Accepted(verifyRefreshToken(ret.arg))
  /\ LiveMatches(ret.arg) # {}

\* C20: a session read during which cache.get or cache.setex throws behaves
\* as a cache miss: it reads the user from the database and returns the
\* snapshot built from it, not an error and not an unauthenticated result.
C20_FailSoft ==
  [][(/\ ret'.op = "getSessionData"
      /\ verifyToken(ret'.arg) # Null
      /\ \E i \in DOMAIN ret'.io :
           ret'.io[i] \in {"cache.get throws", "cache.setex throws"})
       => /\ ret'.result = buildSessionData(verifyToken(ret'.arg).userId)
          /\ ret'.result.authenticated
          /\ \E i \in DOMAIN ret'.io : ret'.io[i] = "User.findById"]_vars

\* C20 witness: cache.get threw while the cache held a live entry for the
\* user, and the read returned a snapshot built at that moment.
C20_Witness ==
  /\ ret.op = "getSessionData"
  /\ ret.io # <<>> /\ ret.io[1] = "cache.get throws"
  /\ ret.result.authenticated
  /\ ret.result.cacheExpiresAt = now + CACHE_TTL_SECONDS
  /\ cache[ret.arg.userId] # NoEntry
  /\ cache[ret.arg.userId].expiresAt < now + CACHE_TTL_SECONDS
  /\ ~isExpired(cache[ret.arg.userId])

\* When a revoked record was revoked: the time of the write that set
\* isActive to false, which the record keeps as updatedAt.
RevokedAt(d) == d.updatedAt

\* C17: cleanupExpiredSessions deletes exactly the records with
\* expiresAt < now or revoked more than 30 days ago, returns their number
\* and leaves the others as they are; no record that validateSession would
\* accept is among them, and nothing is left for a second run at that time.
C17_CleanupExact ==
  [][ret'.op = "cleanupExpiredSessions" =>
       LET Due(d) == \/ d.expiresAt < now
                     \/ ~d.isActive /\ RevokedAt(d) < now - REVOKED_GRACE
           due == {d \in sessions : Due(d)}
       IN /\ sessions' = sessions \ due
          /\ ret'.result = Count(Cardinality(due))
          /\ \A d \in due : ~(d.isActive /\ d.expiresAt > now)
          /\ \A d \in sessions' : ~Due(d)]_vars

\* C17 witness: a sweep that deleted a record and kept another one.
C17_Witness ==
  /\ ret.op = "cleanupExpiredSessions"
  /\ ret.result.n >= 1
  /\ sessions # {}

\* C18: no step sets isActive of a record back to true or changes its
\* expiresAt; a record is removed only when it is expired or was revoked
\* more than 30 days ago; validateSession accepts on an active, unexpired
\* record only and touches no revoked or expired one; lastUsed changes only
\* in a validation that succeeds.
C18_LifecycleMonotone ==
  [][/\ \A d \in sessions, e \in sessions' :
          e.id = d.id =>
            /\ ~d.isActive => ~e.isActive
            /\ e.expiresAt = d.expiresAt
            /\ e.lastUsed # d.lastUsed =>
                 (ret'.op = "validateSession" /\ ret'.result # Null)
     /\ \A d \in sessions :
          (\A e \in sessions' : e.id # d.id) =>
            \/ d.expiresAt <= now
            \/ ~d.isActive /\ RevokedAt(d) < now - REVOKED_GRACE
     /\ ret'.op = "validateSession" =>
          /\ \A d \in sessions : (~d.isActive \/ d.expiresAt <= now) => d \in sessions'
          /\ ret'.result # Null =>
               \E d \in sessions :
                  /\ d.refreshTokenHash = hashRefreshToken(ret'.arg)
                  /\ d.isActive /\ d.expiresAt > now
                  /\ [d EXCEPT !.lastUsed = now, !.updatedAt = now] \in sessions']_vars

\* C18 witness: validateSession turned away a credential that still
\* verifies and whose record is revoked, after a record was used.
C18_Witness ==
  /\ ret.op = "validateSession"
  /\ ret.result = Null
  /\ Accepted(verifyRefreshToken(ret.arg))
  /\ \E d \in sessions : d.refreshTokenHash = hashRefreshToken(ret.arg) /\ ~d.isActive
  /\ \E d \in sessions : d.lastUsed > d.createdAt

\* C21: when validateSession finds the record (active, unexpired) and the
\* write of lastUsed fails, it still returns the principal of the record.
C21_LastUsedBestEffort ==
  (/\ ret.op = "validateSession"
   /\ ret.io = <<"Session.findOne", "session.save throws">>)
    => \E d \in sessions :
          /\ d.refreshTokenHash = hashRefreshToken(ret.arg)
          /\ ret.result = SessionOf(d.userId)

\* C30: every token for which getSessionData returns an authenticated
\* snapshot is one that verifyAccessToken accepts, for the same user (so its
\* type claim is "access").
C30_SessionAcceptsAccessOnly ==
  (ret.op = "getSessionData" /\ ret.result.authenticated)
    => /\ Accepted(verifyAccessToken(ret.arg))
       /\ verifyAccessToken(ret.arg).userId = ret.result.userId
       /\ ret.arg.type = "access"

C29_GraceNeverDecides ==
  [][/\ \A d \in sessions :
          /\ d.expiresAt = d.createdAt + SESSION_LIFETIME
          /\ ~d.isActive => RevokedAt(d) >= d.createdAt
          /\ (~d.isActive /\ RevokedAt(d) < now - REVOKED_GRACE) => d.expiresAt < now
     /\ ret'.op = "cleanupExpiredSessions" =>
          /\ sessions' = {d \in sessions : ~(d.expiresAt < now)}
          /\ \A d \in sessions : (~d.isActive /\ ~(d.expiresAt < now)) => d \in sessions']_vars

\* C29 witness: a sweep later than the grace period after the first login
\* deleted a record.
C29_Witness ==
  /\ ret.op = "cleanupExpiredSessions"
  /\ ret.result.n >= 1
  /\ now > REVOKED_GRACE

\* C24: once the cleanup scheduler has been stopped at shutdown by clearing
\* its timer, no further cleanup sweep is started.
C24_StopEndsSweeps ==
  [][scheduler.stopped => ret'.op # "scheduledCleanup"]_vars

\* The snapshot a cache entry holds.
SnapshotOf(entry) == JsonParse(entry.data)

\* C22: session reads for the same principal that each rebuild converge: a
\* rebuild never replaces the snapshot in the cache by one built from an
\* older profile, so that when all have finished the cache holds the most
\* recent profile any of them read.
C22_RebuildsConverge ==
  [][\A u \in Users :
        (cache[u] # NoEntry /\ cache'[u] # NoEntry)
          => SnapshotOf(cache'[u]).profile >= SnapshotOf(cache[u]).profile]_vars

\* When the profile a snapshot shows was read: buildSessionData takes its
\* times when User.findById has returned.
ReadAt(snapshot) == snapshot.cacheExpiresAt - CACHE_TTL_SECONDS

\* C25: every snapshot a session read returns was built from a profile read
\* at most CACHE_TTL (1800 s) before the moment it is returned.
C25_BoundedStaleness ==
  (ret.op = "getSessionData" /\ ret.result.authenticated)
    => now - ReadAt(ret.result) <= CACHE_TTL_SECONDS

\* C26: an eviction is not undone by a rebuild in flight.  When
\* invalidateSession has deleted the entry of a principal while a session
\* read for that principal holds a snapshot it has built and not yet
\* stored, the write of that read (here: as the step that follows the
\* eviction) does not put that snapshot into the cache.
C26_EvictionStays ==
  [][(ret.op = "invalidateSession" /\ verifyToken(ret.arg) # Null)
       => \A r \in Readers :
             (/\ reads[r].pc = "built"
              /\ reads[r].userId = verifyToken(ret.arg).userId
              /\ reads'[r] = Idle)
               => \/ cache'[reads[r].userId] = NoEntry
                  \/ SnapshotOf(cache'[reads[r].userId]).profile # reads[r].sessionData.profile
                  \/ ReadAt(SnapshotOf(cache'[reads[r].userId])) # ReadAt(reads[r].sessionData)]_vars

\* C23: cleanupExpiredSessions is safe among the other session operations.
\* The sweep removes no record that is active and unexpired at that moment;
\* the save of a validateSession whose record was deleted after the lookup
\* does not bring the record back; and validateSession returns a principal
\* only while the record it looked up is still in the collection.
C23_CleanupSafeInFlight ==
  [][/\ ret'.op = "cleanupExpiredSessions" =>
          /\ sessions' \subseteq sessions
          /\ \A d \in sessions \ sessions' : ~(d.isActive /\ d.expiresAt > now)
     /\ \A v \in Validators :
          (validating[v].pc = "found" /\ validating'[v] = Idle) =>
            /\ {d.id : d \in sessions'} \subseteq {d.id : d \in sessions}
            /\ ret'.result # Null =>
                 \E d \in sessions : d.id = validating[v].session.id]_vars

\* C23 witness: a validateSession whose record the sweep deleted between
\* its lookup and its save has returned null, and the record is gone.
C23_Witness ==
  /\ ret.op = "validateSession"
  /\ ret.io = <<"Session.findOne", "session.save throws">>
  /\ ret.result = Null
  /\ HashMatches(ret.arg) = {}

\* A validateSession(R) has just returned a principal although a
\* revocation ran between its lookup and its save: every record of R that
\* this moment's save can have written is revoked.
SavedOverRevocation ==
  /\ ret.op = "validateSession"
  /\ ret.io = <<"Session.findOne", "session.save">>
  /\ ret.result # Null
  /\ \A d \in HashMatches(ret.arg) : d.lastUsed = now => ~d.isActive

\* C27: a revocation is never undone by a concurrent validation.  When the
\* record was revoked between the lookup and the save of validateSession(R),
\* it is still revoked after the save, and a validateSession(R) that starts
\* after that returns null.
C27_RevocationStays ==
  [][/\ \A v \in Validators :
          (validating[v].pc = "found" /\ validating'[v] = Idle) =>
            \A d \in sessions, e \in sessions' :
               (e.id = d.id /\ ~d.isActive) => ~e.isActive
     /\ (SavedOverRevocation /\ \A v \in Validators : validating[v] = Idle)
         => /\ (ret'.op = "validateSession" /\ ret'.arg = ret.arg) => ret'.result = Null
            /\ \A v \in Validators :
                  validating'[v] # Idle => validating'[v].token # ret.arg]_vars

====
